---- MODULE Spec2Model ----
(***************************************************************************)
(* Model of the job orchestration core of short-video-maker:               *)
(*   - ShortCreator: the single-lane queue (addToQueue / processQueue),    *)
(*     the per-scene pipeline (createShort), the provider-only pipeline    *)
(*     (createVeoOnlyShort) and the status read;                           *)
(*   - VeoAPI: generateVideo (create + retry with backoff) and pollTask;   *)
(*   - VeoErrors: the error classes and isRetryableVeoError.               *)
(* Every await of the source is one step of the model: the awaited         *)
(* collaborator resolves or rejects, and the code runs on to its next      *)
(* await.  Durations are kept in milliseconds.                             *)
(***************************************************************************)
EXTENDS Integers, Sequences, FiniteSets, TLC

VARIABLES queue, runs, nextId, videos, tempFs, hist, call

vars == <<queue, runs, nextId, videos, tempFs, hist, call>>

(***************************************************************************)
(* Bounds of the model.                                                    *)
(***************************************************************************)
MaxJobs == 2

MaxRetriesBound == 5

(***************************************************************************)
(* Program constants.                                                      *)
(***************************************************************************)
MAX_POLLING_ATTEMPTS == 40

DefaultMaxRetries == 2

BackoffBaseMs == 1000

BackoffCapMs == 10000

ContentPolicyStatus == 400

\* `undefined` in a numeric field of an error (statusCode, veoCode)
Undefined == -1

(***************************************************************************)
(* Text: a message is named by a string and spelled as a sequence of       *)
(* characters, so that toLowerCase() and includes() are computed.          *)
(***************************************************************************)
Messages == {"Content Policy", "SAFETY block", "Violation", "Invalid prompt", "Server error", ""}

Chars(m) ==
    CASE m = "Content Policy" -> <<"C","o","n","t","e","n","t"," ","P","o","l","i","c","y">>
      [] m = "SAFETY block"   -> <<"S","A","F","E","T","Y"," ","b","l","o","c","k">>
      [] m = "Violation"      -> <<"V","i","o","l","a","t","i","o","n">>
      [] m = "Invalid prompt" -> <<"I","n","v","a","l","i","d"," ","p","r","o","m","p","t">>
      [] m = "Server error"   -> <<"S","e","r","v","e","r"," ","e","r","r","o","r">>
      [] m = "Unknown error"  -> <<"U","n","k","n","o","w","n"," ","e","r","r","o","r">>
      [] m = "Request failed" -> <<"R","e","q","u","e","s","t"," ","f","a","i","l","e","d">>
      [] OTHER                -> << >>

LowerChar(c) ==
    CASE c = "A" -> "a" [] c = "C" -> "c" [] c = "E" -> "e" [] c = "F" -> "f"
      [] c = "I" -> "i" [] c = "P" -> "p" [] c = "R" -> "r" [] c = "S" -> "s"
      [] c = "T" -> "t" [] c = "U" -> "u" [] c = "V" -> "v" [] c = "Y" -> "y"
      [] OTHER -> c

toLowerCase(s) == [k \in 1..Len(s) |-> LowerChar(s[k])]

includes(s, sub) ==
    \E k \in 1..(Len(s) - Len(sub) + 1) : SubSeq(s, k, k + Len(sub) - 1) = sub

PhraseContentPolicy == <<"c","o","n","t","e","n","t"," ","p","o","l","i","c","y">>

PhraseSafety == <<"s","a","f","e","t","y">>

PhraseViolat == <<"v","i","o","l","a","t">>

\* the test of the message text for the three phrases
hasPolicyPhrase(m) ==
    \/ includes(toLowerCase(Chars(m)), PhraseContentPolicy)
    \/ includes(toLowerCase(Chars(m)), PhraseSafety)
    \/ includes(toLowerCase(Chars(m)), PhraseViolat)

\* the texts that occur as messages, and those of them on which the test is
\* true (computed once)
Texts == Messages \cup {"Unknown error", "Request failed"}

PolicyTexts == {m \in Texts : hasPolicyPhrase(m)}

isContentPolicy(m) == IF m \in Texts THEN m \in PolicyTexts ELSE hasPolicyPhrase(m)

\* `x || y` on message strings: the empty string is falsy
OrElse(m, dflt) == IF m = "" THEN dflt ELSE m

(***************************************************************************)
(* VeoErrors: the error classes and the retry classification.              *)
(***************************************************************************)
\* of an error's context, the task id and the attempt count are kept
NoError ==
    [name |-> "none", statusCode |-> Undefined, veoCode |-> Undefined, veoMessage |-> "",
     taskId |-> Undefined, attempts |-> Undefined]

VeoContentPolicyError(veoMessage) ==
    [name |-> "VeoContentPolicyError", statusCode |-> ContentPolicyStatus,
     veoCode |-> Undefined, veoMessage |-> veoMessage,
     taskId |-> Undefined, attempts |-> Undefined]

VeoAPIError(statusCode, veoCode, veoMessage) ==
    [name |-> "VeoAPIError", statusCode |-> statusCode,
     veoCode |-> veoCode, veoMessage |-> veoMessage,
     taskId |-> Undefined, attempts |-> Undefined]

VeoTimeoutError(taskId, attempts) ==
    [name |-> "VeoTimeoutError", statusCode |-> Undefined,
     veoCode |-> Undefined, veoMessage |-> "",
     taskId |-> taskId, attempts |-> attempts]

\* a plain Error (not a VeoError): a request without response, a missing URL
PlainError ==
    [name |-> "Error", statusCode |-> Undefined, veoCode |-> Undefined, veoMessage |-> "",
     taskId |-> Undefined, attempts |-> Undefined]

isRetryableRateLimited(error) ==
    IF error.name = "VeoContentPolicyError" THEN FALSE
    ELSE IF error.statusCode = 401 \/ error.statusCode = 403 THEN FALSE
    ELSE IF error.statusCode = 400 \/ error.statusCode = 429 THEN TRUE
    ELSE IF error.statusCode # Undefined /\ error.statusCode >= 500 THEN TRUE
    ELSE FALSE

isRetryableUnknownStatus(error) ==
    IF error.name = "VeoContentPolicyError" THEN FALSE
    ELSE IF error.statusCode = 401 \/ error.statusCode = 403 THEN FALSE
    ELSE IF error.statusCode = 400 THEN TRUE
    ELSE IF error.statusCode = Undefined \/ error.statusCode >= 500 THEN TRUE
    ELSE FALSE

isRetryableVeoError(error) ==
    IF error.name = "VeoContentPolicyError" THEN FALSE
    ELSE IF error.statusCode = 401 \/ error.statusCode = 403 THEN FALSE
    ELSE IF error.statusCode = 400 THEN TRUE
    ELSE IF error.statusCode # Undefined /\ error.statusCode >= 500 THEN TRUE
    ELSE FALSE

RECURSIVE Pow2(_)
Pow2(n) == IF n = 0 THEN 1 ELSE 2 * Pow2(n - 1)

Min(a, b) == IF a <= b THEN a ELSE b

backoffUncapped(attempt) == BackoffBaseMs * Pow2(attempt)

backoffMs(attempt) == Min(BackoffBaseMs * Pow2(attempt), BackoffCapMs)

(***************************************************************************)
(* The provider's answers.                                                 *)
(***************************************************************************)
HttpStatuses == {400, 401, 403, 404, 429, 500, 503}

\* answers to POST /veo/generate:
\*   ok      HTTP 2xx, body code 200, a task id
\*   body    HTTP 2xx, body code # 200 and a message
\*   http    an HTTP error status (axios rejects, error.response is set)
\*   network no response at all (connection error, request timeout)
CreateResponses ==
    {[kind |-> "ok", status |-> 200, msg |-> ""]}
    \cup {[kind |-> "body", status |-> c, msg |-> m] : c \in HttpStatuses, m \in Messages}
    \cup {[kind |-> "http", status |-> s, msg |-> m] : s \in HttpStatuses, m \in Messages}
    \cup {[kind |-> "network", status |-> Undefined, msg |-> ""]}

\* answers to GET /veo/record-info:
\*   flag    HTTP 2xx with data.successFlag, resultUrls present or not, errorMessage
\*   http    an HTTP error status
\*   network no response at all
PollResponses ==
    {[kind |-> "flag", successFlag |-> 0, hasUrl |-> FALSE, status |-> 200, msg |-> ""]}
    \cup {[kind |-> "flag", successFlag |-> 1, hasUrl |-> u, status |-> 200, msg |-> ""] : u \in BOOLEAN}
    \cup {[kind |-> "flag", successFlag |-> f, hasUrl |-> FALSE, status |-> 200, msg |-> m] :
             f \in {2, 3}, m \in Messages}
    \cup {[kind |-> "http", successFlag |-> 0, hasUrl |-> FALSE, status |-> s, msg |-> ""] : s \in HttpStatuses}
    \cup {[kind |-> "network", successFlag |-> 0, hasUrl |-> FALSE, status |-> Undefined, msg |-> ""]}

(***************************************************************************)
(* VeoAPI.generateVideo / pollTask as a state machine over one call        *)
(* record v:                                                               *)
(*   pc         idle | create | backoff | poll | returned | thrown         *)
(*   attempt    the loop variable of generateVideo                         *)
(*   i          the loop variable of pollTask                              *)
(*   lastError  generateVideo's lastError                                  *)
(*   error      what the call threw (pc = thrown)                          *)
(* and, as a record of what happened: creates (POSTs issued), tasks (task  *)
(* ids handed out), polls (GETs issued for the current task), waits (the   *)
(* backoff delays), policyAt (creates at the first answer that carried a   *)
(* policy phrase, 0 if none), permanentAt (creates at the first POST       *)
(* answered with HTTP 401, 403 or 429, 0 if none), fails5xx (POSTs         *)
(* answered with an HTTP 5xx status), ended (the first answer after which  *)
(* pollTask returned or threw: the kind of the answer, the task polled,    *)
(* and the polls and creates issued by then).                              *)
(***************************************************************************)
NotEnded == [by |-> "none", task |-> 0, polls |-> 0, creates |-> 0]

VeoIdle ==
    [pc |-> "idle", maxRetries |-> 0, attempt |-> 0, i |-> 0,
     lastError |-> NoError, error |-> NoError,
     creates |-> 0, tasks |-> 0, polls |-> 0, waits |-> << >>,
     policyAt |-> 0, permanentAt |-> 0, fails5xx |-> 0, ended |-> NotEnded]

Throw(v, e) == [v EXCEPT !.pc = "thrown", !.error = e]

\* the for loop of generateVideo: attempt <= maxRetries
loopConditionExclusive(attempt, maxRetries) == attempt < maxRetries

loopCondition(attempt, maxRetries) == attempt <= maxRetries

\* the retry test of the catch block: attempt < maxRetries
attemptsRemain(attempt, maxRetries) == attempt < maxRetries

\* top of the loop: the next POST is issued, or the loop is over and
\* `throw lastError || new Error(...)` is reached
LoopTop(v) ==
    IF loopCondition(v.attempt, v.maxRetries)
    THEN [v EXCEPT !.pc = "create", !.creates = @ + 1]
    ELSE Throw(v, IF v.lastError = NoError THEN PlainError ELSE v.lastError)

\* entry of generateVideo: attempt = 0
generateVideo(maxRetries) == LoopTop([VeoIdle EXCEPT !.maxRetries = maxRetries])

\* generateVideo's catch block for a caught VeoError (or wrapped axios error)
CatchInGenerate(v, e) ==
    LET w == [v EXCEPT !.lastError = e] IN
    IF ~isRetryableVeoError(e) THEN Throw(w, e)
    ELSE IF attemptsRemain(w.attempt, w.maxRetries)
         THEN [w EXCEPT !.pc = "backoff", !.waits = Append(@, backoffMs(w.attempt))]
         \* the catch block ends: attempt++ and the loop test
         ELSE LoopTop([w EXCEPT !.attempt = @ + 1])

\* `return await this.pollTask(taskId, prompt)` with the task id of the
\* answer (the provider hands out a fresh id per create): i = 0
pollTaskResume(v) == [v EXCEPT !.pc = "poll"]

pollTask(v) == [v EXCEPT !.pc = "poll", !.tasks = @ + 1, !.i = 0, !.polls = 0]

\* generateVideo's catch block for an error that is neither an axios error
\* with a response nor a VeoError: `throw error`
retryNoResponse(v) ==
    IF attemptsRemain(v.attempt, v.maxRetries)
    THEN [v EXCEPT !.lastError = PlainError, !.pc = "backoff",
                   !.waits = Append(@, backoffMs(v.attempt))]
    ELSE Throw(v, PlainError)

rethrowNoResponse(v) == Throw(v, PlainError)

\* the awaited POST answers
AfterCreate(v, resp) ==
    LET seen == [v EXCEPT
            !.policyAt = IF @ = 0 /\ resp.kind \in {"body", "http"} /\ isContentPolicy(resp.msg)
                         THEN v.creates ELSE @,
            !.permanentAt = IF @ = 0 /\ resp.kind = "http" /\ resp.status \in {401, 403, 429}
                            THEN v.creates ELSE @,
            !.fails5xx = IF resp.kind = "http" /\ resp.status >= 500 THEN @ + 1 ELSE @] IN
    CASE resp.kind = "ok" -> pollTask(seen)
      [] resp.kind = "body" ->
            LET errorMessage == OrElse(resp.msg, "Unknown error") IN
            IF isContentPolicy(errorMessage)
            THEN CatchInGenerate(seen, VeoContentPolicyError(errorMessage))
            ELSE CatchInGenerate(seen, VeoAPIError(resp.status, resp.status, errorMessage))
      [] resp.kind = "http" ->
            CatchInGenerate(seen, VeoAPIError(resp.status, resp.status,
                                              OrElse(resp.msg, "Request failed")))
      \* not an axios error with a response, not a VeoError: rethrown
      [] OTHER -> rethrowNoResponse(seen)

\* the backoff timer fires: `continue`, attempt++ and the loop test
AfterBackoff(v) == LoopTop([v EXCEPT !.attempt = @ + 1])

\* the for loop of pollTask: i < MAX_POLLING_ATTEMPTS
pollConditionInclusive(i) == i <= MAX_POLLING_ATTEMPTS

pollConditionOnce(i) == i < 1

pollCondition(i) == i < MAX_POLLING_ATTEMPTS

\* pollTask: end of one loop iteration without return or throw: i++ and the
\* loop test; after the loop, `throw new VeoTimeoutError(taskId, 40)`
NextPoll(v) ==
    IF pollCondition(v.i + 1)
    THEN [v EXCEPT !.i = @ + 1]
    ELSE CatchInGenerate([v EXCEPT !.i = @ + 1],
                         VeoTimeoutError(v.tasks, MAX_POLLING_ATTEMPTS))

\* the statuses pollTask's catch block throws on: 401 and 403 (auth), 429
\* (rate limit); any other HTTP error is logged and polling goes on
throwsInPollAnyStatus(status) == status >= 400

throwsInPoll(status) == status = 401 \/ status = 403 \/ status = 429

\* what an answer to a status check says
PollClass(resp) ==
    CASE resp.kind = "flag" /\ resp.successFlag = 0 -> "generating"
      [] resp.kind = "flag" /\ resp.successFlag = 1 /\ resp.hasUrl -> "success"
      [] resp.kind = "flag" /\ resp.successFlag = 1 -> "nourl"
      [] resp.kind = "flag" -> "failed"
      [] resp.kind = "http" /\ resp.status \in {401, 403, 429} -> "permanent"
      [] OTHER -> "transport"

\* the awaited GET answers (after the polling interval)
PollAnswer(v, resp) ==
    LET p == [v EXCEPT !.polls = @ + 1,
                       !.policyAt = IF @ = 0 /\ resp.kind = "flag"
                                         /\ resp.successFlag \in {2, 3}
                                         /\ isContentPolicy(resp.msg)
                                    THEN v.creates ELSE @] IN
    CASE resp.kind = "flag" /\ resp.successFlag = 1 ->
            IF resp.hasUrl THEN [p EXCEPT !.pc = "returned"]
            \* a plain Error thrown inside the try: pollTask's own catch logs it
            ELSE NextPoll(p)
      [] resp.kind = "flag" /\ resp.successFlag \in {2, 3} ->
            LET veoMessage == OrElse(resp.msg, "Unknown error") IN
            IF isContentPolicy(veoMessage)
            THEN CatchInGenerate(p, VeoContentPolicyError(veoMessage))
            ELSE CatchInGenerate(p, VeoAPIError(Undefined, resp.successFlag, veoMessage))
      [] resp.kind = "http" /\ throwsInPoll(resp.status) ->
            CatchInGenerate(p, VeoAPIError(resp.status, Undefined, ""))
      [] OTHER -> NextPoll(p)

\* the answer handled, and the record of the first one that ended pollTask
AfterPoll(v, resp) ==
    LET w == PollAnswer(v, resp) IN
    IF v.ended.by = "none" /\ w.pc # "poll"
    THEN [w EXCEPT !.ended = [by |-> PollClass(resp), task |-> v.tasks,
                              polls |-> v.polls + 1, creates |-> v.creates]]
    ELSE w

(***************************************************************************)
(* ShortCreator.  A job is the item pushed on the queue: id, the scene     *)
(* inputs and the render config.  What matters of a scene input is its     *)
(* imageInput.value:                                                       *)
(*   none          no image: the stock-footage branch                      *)
(*   remote        a public URL                                            *)
(*   local         a localhost URL of an existing static or temp file      *)
(*   localMissing  a localhost URL whose path is unsupported or whose file *)
(*                 does not exist                                          *)
(***************************************************************************)
MaxVideoIds == 2

PadMs == 500

AudioLengths == {1000, 2000}

VideoIds == 1..MaxVideoIds

\* `undefined` as a scene's image
NoImage == "none"

\* a job: config.veoOnly, per scene its imageInput (scenes) and its
\* endImageInput (endImages), and config.paddingBack
JobInputs ==
    { [veoOnly |-> TRUE,  scenes |-> <<"remote">>, endImages |-> <<NoImage>>,         paddingBack |-> 0],
      [veoOnly |-> TRUE,  scenes |-> <<"none">>, endImages |-> <<NoImage>>,           paddingBack |-> 0],
      [veoOnly |-> TRUE,  scenes |-> << >>, endImages |-> << >>,                paddingBack |-> 0],
      [veoOnly |-> TRUE,  scenes |-> <<"local">>, endImages |-> <<NoImage>>,          paddingBack |-> 0],
      [veoOnly |-> TRUE,  scenes |-> <<"localMissing">>, endImages |-> <<NoImage>>,   paddingBack |-> 0],
      [veoOnly |-> FALSE, scenes |-> <<"none">>, endImages |-> <<NoImage>>,           paddingBack |-> 0],
      [veoOnly |-> FALSE, scenes |-> <<"remote", "none">>, endImages |-> <<NoImage, NoImage>>, paddingBack |-> PadMs] }

\* the jobs drawn where every behaviour is followed to its end (liveness)
FairJobInputs ==
    { [veoOnly |-> TRUE,  scenes |-> <<"remote">>, endImages |-> <<NoImage>>, paddingBack |-> 0],
      [veoOnly |-> TRUE,  scenes |-> <<"local">>, endImages |-> <<NoImage>>,  paddingBack |-> 0],
      [veoOnly |-> TRUE,  scenes |-> <<"none">>, endImages |-> <<NoImage>>,   paddingBack |-> 0],
      [veoOnly |-> FALSE, scenes |-> <<"remote">>, endImages |-> <<NoImage>>, paddingBack |-> PadMs],
      [veoOnly |-> FALSE, scenes |-> <<"none">>, endImages |-> <<NoImage>>,   paddingBack |-> 0] }

\* the job the images-to-video tool submits for two image URLs: the second
\* one is the scene's endImageInput
TwoImagesJob ==
    [veoOnly |-> TRUE, scenes |-> <<"remote">>, endImages |-> <<"remoteEnd">>,
     paddingBack |-> 0]

\* the jobs drawn where one job is followed through its scenes
MaxPipelineJobs == 1

PipelineJobInputs ==
    { [veoOnly |-> TRUE,  scenes |-> <<"remote">>, endImages |-> <<NoImage>>,                 paddingBack |-> 0],
      TwoImagesJob,
      [veoOnly |-> TRUE,  scenes |-> <<"local">>, endImages |-> <<NoImage>>,                  paddingBack |-> 0],
      [veoOnly |-> FALSE, scenes |-> <<"none">>, endImages |-> <<NoImage>>,                   paddingBack |-> PadMs],
      [veoOnly |-> FALSE, scenes |-> <<"none", "none">>, endImages |-> <<NoImage, NoImage>>,           paddingBack |-> 0],
      [veoOnly |-> FALSE, scenes |-> <<"remote", "none">>, endImages |-> <<NoImage, NoImage>>,         paddingBack |-> PadMs],
      [veoOnly |-> FALSE, scenes |-> <<"none", "remote", "none">>, endImages |-> <<NoImage, NoImage, NoImage>>, paddingBack |-> PadMs] }

\* the provider's answers drawn while a job runs
JobCreateResponses ==
    { resp \in CreateResponses :
        \/ resp.kind \in {"ok", "network"}
        \/ resp.kind = "http" /\ resp.status \in {401, 500} /\ resp.msg = "Server error" }

JobPollResponses ==
    { resp \in PollResponses :
        \/ resp.kind = "network"
        \/ resp.kind = "flag" /\ resp.successFlag \in {0, 1}
        \/ resp.kind = "flag" /\ resp.successFlag = 2 /\ resp.msg = "Invalid prompt" }

\* temp paths: path.join(tempDirPath, `${tempId}.wav`) and so on; the fresh
\* cuid() of a scene is named by the job and the scene index it was drawn for
TempPath(jobId, index, ext) == [job |-> jobId, scene |-> index, ext |-> ext]

NoPath == TempPath(0, 0, "none")

\* the job of the provider-only scenario: one scene, an image at a public URL
ScenarioJob == [veoOnly |-> TRUE, scenes |-> <<"remote">>, endImages |-> <<NoImage>>, paddingBack |-> 0]

\* the locals of one createShort / createVeoOnlyShort execution, and pc,
\* the await it is suspended at; and, as a record of what happened:
\*   synth     the sum of the audio lengths kokoro returned
\*   found     the ids pexelsApi.findVideo returned, in order
\*   failed    the scene indexes whose provider call or download failed
\*   imageUrls the start and end frame of the last generateVideo call
\*   threwAt   the stage whose collaborator call rejected: kokoro, normalize,
\*             whisper, mp3 or pexels
\*   unlinked  the temp paths unlinked by a download that ended with a
\*             request error
\*   scenario  the job is ScenarioJob and every answer so far was the
\*             scenario's: create ok; polls "generating", then a URL before
\*             the attempt bound; download 200
NewRun(item) ==
    [id |-> item.id, job |-> item.job, pc |-> "entry",
     index |-> 0, scenes |-> << >>, totalDuration |-> 0,
     excludeVideoIds |-> << >>, tempFiles |-> << >>,
     audioLength |-> 0, videoId |-> 0, veo |-> VeoIdle,
     synth |-> 0, found |-> << >>, failed |-> {}, imageUrls |-> << >>,
     threwAt |-> "none", unlinked |-> {}, scenario |-> (item.job = ScenarioJob)]

\* after the scene loop: the trailing pad, findMusic, then remotion.render
AfterLoop(run) ==
    [run EXCEPT !.totalDuration = @ + run.job.paddingBack, !.pc = "render"]

\* top of the scene loop: the next scene's kokoro.generate, or the loop's end
LoopHead(run) ==
    IF run.index < Len(run.job.scenes)
    THEN [run EXCEPT !.pc = "kokoro"]
    ELSE AfterLoop(run)

\* the scene's input image (scene.imageInput.value)
inputImage(run) == run.job.scenes[run.index + 1]

\* `if (!videoUrl) imageUrl = inputImage` in the provided-image branch
imageUrlAlways(videoUrl, image) == image

imageUrl(videoUrl, image) == IF videoUrl = NoPath THEN image ELSE NoImage

\* the scene result: video, image, audio.duration (and `from`, the position
\* of the input scene it was made from)
SceneResult(run, video, image) ==
    [video |-> video, image |-> image, duration |-> run.audioLength,
     from |-> run.index + 1]

\* scenes.push, totalDuration += audioLength, index++
UnshiftScene(run, video, image) ==
    LoopHead([run EXCEPT
        !.scenes = <<SceneResult(run, video, image)>> \o @,
        !.totalDuration = @ + run.audioLength,
        !.index = @ + 1])

PushScene(run, video, image) ==
    LoopHead([run EXCEPT
        !.scenes = Append(@, SceneResult(run, video, image)),
        !.totalDuration = @ + run.audioLength,
        !.index = @ + 1])

\* what the caller of generateVideo does once the call has returned or thrown
\* (the call's own locals are gone with it; of a call that returned in the
\* provider-only scenario the record is kept until the job ends)
AfterVeoRethrow(run, v) ==
    LET w == [run EXCEPT !.veo = VeoIdle,
                         !.failed = IF v.pc = "thrown" /\ run.pc = "veo"
                                    THEN @ \cup {run.index} ELSE @] IN
    CASE v.pc = "returned" ->
            IF run.pc = "veo" THEN [w EXCEPT !.pc = "veo_download"]
            ELSE [w EXCEPT !.veo = IF run.scenario THEN v ELSE VeoIdle, !.pc = "vo_download"]
      [] v.pc = "thrown" -> [w EXCEPT !.pc = "rejected"]
      [] OTHER -> [run EXCEPT !.veo = v]

AfterVeo(run, v) ==
    LET w == [run EXCEPT !.veo = VeoIdle,
                         !.failed = IF v.pc = "thrown" /\ run.pc = "veo"
                                    THEN @ \cup {run.index} ELSE @] IN
    CASE v.pc = "returned" ->
            IF run.pc = "veo" THEN [w EXCEPT !.pc = "veo_download"]
            ELSE [w EXCEPT !.veo = IF run.scenario THEN v ELSE VeoIdle, !.pc = "vo_download"]
      [] v.pc = "thrown" ->
            IF run.pc = "veo"
            \* caught: fall back to the still image
            THEN PushScene(w, NoPath, imageUrl(NoPath, inputImage(w)))
            ELSE [w EXCEPT !.pc = "rejected"]
      [] OTHER -> [run EXCEPT !.veo = v]

\* veoApi.generateVideo(prompt, inputImage, inputImage, aspectRatio): the
\* request's imageUrls are [startFrameUrl, endFrameUrl]
veoFrames(image) == <<image, image>>

animate(run, image) ==
    AfterVeo([run EXCEPT !.imageUrls = veoFrames(image)], generateVideo(DefaultMaxRetries))

\* the URL veoApi.uploadFile returns for a localhost image
UploadedUrl == "uploaded"

\* createVeoOnlyShort up to its first await
createVeoOnlyShortUnchecked(run) ==
    IF Len(run.job.scenes) = 0
    THEN [run EXCEPT !.pc = "rejected"]
    ELSE LET image == run.job.scenes[1] IN
         CASE image = "localMissing" -> [run EXCEPT !.pc = "rejected"]
           [] image = "local"        -> [run EXCEPT !.pc = "vo_upload"]
           [] OTHER -> animate([run EXCEPT !.pc = "vo_veo"], image)

createVeoOnlyShort(run) ==
    IF Len(run.job.scenes) = 0
    THEN [run EXCEPT !.pc = "rejected"]      \* scene is undefined: TypeError
    ELSE LET image == run.job.scenes[1] IN
         CASE image = "none"         -> [run EXCEPT !.pc = "rejected"]
           [] image = "localMissing" -> [run EXCEPT !.pc = "rejected"]
           [] image = "local"        -> [run EXCEPT !.pc = "vo_upload"]
           [] OTHER -> animate([run EXCEPT !.pc = "vo_veo"], image)

\* createShort up to its first await
createShort(item) ==
    IF item.job.veoOnly
    THEN createVeoOnlyShort(NewRun(item))
    ELSE LoopHead(NewRun(item))

\* addToQueue: start processing when the pushed item is the only one
ShouldStartAlways(q) == Len(q) >= 1

ShouldStart(q) == Len(q) = 1

\* processQueue: the item it takes
QueueHead(q) == q[1]

\* processQueue up to its await: nothing to do on an empty queue, else
\* createShort for the head
processQueue(q) ==
    IF Len(q) = 0 THEN << >> ELSE <<createShort(QueueHead(q))>>

\* status(id)
statusFileFirst(id) ==
    IF id \in videos THEN "ready"
    ELSE IF \E k \in 1..Len(queue) : queue[k].id = id THEN "processing"
    ELSE "failed"

statusPending(id) ==
    IF \E k \in 1..Len(queue) : queue[k].id = id THEN "processing"
    ELSE IF id \in videos THEN "ready"
    ELSE "processing"

status(id) ==
    IF \E k \in 1..Len(queue) : queue[k].id = id THEN "processing"
    ELSE IF id \in videos THEN "ready"
    ELSE "failed"

RemoveAt(s, k) == SubSeq(s, 1, k - 1) \o SubSeq(s, k + 1, Len(s))

Range(s) == {s[k] : k \in 1..Len(s)}

SetRun(r, run) == runs' = [runs EXCEPT ![r] = run]

Submit(job) ==
    LET q == Append(queue, [id |-> nextId, job |-> job]) IN
    /\ nextId <= MaxJobs
    /\ queue' = q
    /\ runs' = IF ShouldStart(q) THEN runs \o processQueue(q) ELSE runs
    /\ nextId' = nextId + 1
    /\ UNCHANGED <<videos, tempFs, hist, call>>

AddToQueue == \E job \in JobInputs : Submit(job)

AddToQueueFair == \E job \in FairJobInputs : Submit(job)

AddToQueuePipeline ==
    /\ nextId <= MaxPipelineJobs
    /\ \E job \in PipelineJobInputs : Submit(job)

\* processQueue after the awaited createShort settled: log, then finally
\* { queue.shift(); processQueue() }
keepOnFailure(q, run) == IF run.pc = "rejected" THEN q ELSE Tail(q)

pop(q, run) == SubSeq(q, 1, Len(q) - 1)

shift(q, run) == Tail(q)

Settle(r) ==
    /\ runs[r].pc \in {"resolved", "rejected"}
    /\ LET q == shift(queue, runs[r]) IN
       /\ queue' = q
       /\ runs' = RemoveAt(runs, r) \o processQueue(q)
    /\ hist' = [hist EXCEPT !.done = Append(@, runs[r].id),
                            !.threw = IF runs[r].pc = "rejected" THEN @ \cup {runs[r].id} ELSE @]
    /\ UNCHANGED <<nextId, videos, tempFs, call>>

\* an awaited collaborator call of a scene rejects: the error leaves
\* createShort (threwAt records the stage)
RetryStage(run, stage) == [run EXCEPT !.threwAt = stage]

Reject(run, stage) == [run EXCEPT !.pc = "rejected", !.threwAt = stage]

\* the awaits of one scene before its visual, in program order:
\* kokoro.generate, ffmpeg.saveNormalizedAudio, whisper.CreateCaption,
\* ffmpeg.saveToMp3
nextStageUnawaited(pc) ==
    CASE pc = "kokoro"    -> "normalize"
      [] pc = "normalize" -> "mp3"
      [] pc = "whisper"   -> "mp3"

nextStage(pc) ==
    CASE pc = "kokoro"    -> "normalize"
      [] pc = "normalize" -> "whisper"
      [] pc = "whisper"   -> "mp3"

\* kokoro.generate settles; then the pad of the last scene, cuid(), the two
\* audio temp paths, and ffmpeg.saveNormalizedAudio is awaited
Kokoro(r) ==
    /\ runs[r].pc = "kokoro"
    /\ LET run == runs[r]
           last == run.index + 1 = Len(run.job.scenes) /\ run.job.paddingBack # 0
           wav == TempPath(run.id, run.index, "wav")
           mp3 == TempPath(run.id, run.index, "mp3") IN
       \/ /\ \E len \in AudioLengths :
               SetRun(r, [run EXCEPT
                   !.synth = @ + len,
                   !.audioLength = IF last THEN len + run.job.paddingBack ELSE len,
                   !.tempFiles = @ \o <<wav, mp3>>,
                   !.pc = nextStage("kokoro")])
          /\ hist' = [hist EXCEPT !.registered = @ \cup {wav, mp3}]
       \/ /\ SetRun(r, Reject(run, "kokoro"))
          /\ UNCHANGED hist
    /\ UNCHANGED <<queue, nextId, videos, tempFs, call>>

\* ffmpeg.saveNormalizedAudio settles; whisper.CreateCaption is awaited
Normalize(r) ==
    /\ runs[r].pc = "normalize"
    /\ LET run == runs[r] IN
       \/ /\ SetRun(r, [run EXCEPT !.pc = nextStage("normalize")])
          /\ tempFs' = tempFs \cup {TempPath(run.id, run.index, "wav")}
       \/ /\ SetRun(r, Reject(run, "normalize"))
          /\ UNCHANGED tempFs
    /\ UNCHANGED <<queue, nextId, videos, hist, call>>

\* whisper.CreateCaption settles; ffmpeg.saveToMp3 is awaited
Whisper(r) ==
    /\ runs[r].pc = "whisper"
    /\ \/ SetRun(r, [runs[r] EXCEPT !.pc = nextStage("whisper")])
       \/ SetRun(r, Reject(runs[r], "whisper"))
    /\ UNCHANGED <<queue, nextId, videos, tempFs, hist, call>>

\* ffmpeg.saveToMp3 settles; then the visual branch: the provided image is
\* animated by veoApi.generateVideo, or pexelsApi.findVideo is awaited
SaveToMp3(r) ==
    /\ runs[r].pc = "mp3"
    /\ LET run == runs[r]
           image == run.job.scenes[run.index + 1]
           veoPath == TempPath(run.id, run.index, "_veo.mp4")
           mp4Path == TempPath(run.id, run.index, "mp4") IN
       \/ /\ tempFs' = tempFs \cup {TempPath(run.id, run.index, "mp3")}
          /\ IF image # "none"
             THEN /\ SetRun(r, animate([run EXCEPT !.tempFiles = Append(@, veoPath),
                                                   !.pc = "veo"],
                                        inputImage(run)))
                  /\ hist' = [hist EXCEPT !.registered = @ \cup {veoPath}]
             ELSE /\ SetRun(r, [run EXCEPT !.tempFiles = Append(@, mp4Path),
                                           !.pc = "pexels"])
                  /\ hist' = [hist EXCEPT !.registered = @ \cup {mp4Path}]
       \/ /\ SetRun(r, Reject(run, "mp3"))
          /\ UNCHANGED <<tempFs, hist>>
    /\ UNCHANGED <<queue, nextId, videos, call>>

VeoCreate(r) ==
    /\ runs[r].pc \in {"veo", "vo_veo"}
    /\ runs[r].veo.pc = "create"
    /\ \E resp \in JobCreateResponses :
         SetRun(r, AfterVeo([runs[r] EXCEPT !.scenario = @ /\ resp.kind = "ok"],
                            AfterCreate(runs[r].veo, resp)))
    /\ UNCHANGED <<queue, nextId, videos, tempFs, hist, call>>

VeoBackoff(r) ==
    /\ runs[r].pc \in {"veo", "vo_veo"}
    /\ runs[r].veo.pc = "backoff"
    /\ SetRun(r, AfterVeo(runs[r], AfterBackoff(runs[r].veo)))
    /\ UNCHANGED <<queue, nextId, videos, tempFs, hist, call>>

\* a returned URL is downloaded at once: fs.createWriteStream creates the
\* target file (the scene's temp file, or the final path of the job) and
\* https.get is awaited
VeoPoll(r) ==
    /\ runs[r].pc \in {"veo", "vo_veo"}
    /\ runs[r].veo.pc = "poll"
    /\ \E resp \in JobPollResponses :
         LET inScenario ==
                 \/ PollClass(resp) = "success"
                 \/ PollClass(resp) = "generating"
                       /\ runs[r].veo.polls + 1 < MAX_POLLING_ATTEMPTS
             run == AfterVeo([runs[r] EXCEPT !.scenario = @ /\ inScenario],
                             AfterPoll(runs[r].veo, resp)) IN
         /\ SetRun(r, run)
         /\ videos' = IF run.pc = "vo_download" THEN videos \cup {run.id} ELSE videos
         /\ tempFs' = IF run.pc = "veo_download"
                      THEN tempFs \cup {TempPath(run.id, run.index, "_veo.mp4")}
                      ELSE tempFs
    /\ UNCHANGED <<queue, nextId, hist, call>>

\* fs.unlink(tempVideoPath, () => {}) in the error handler of a download
unlinkSceneFiles(files, path) ==
    {p \in files : ~(p.job = path.job /\ p.scene = path.scene)}

unlink(files, path) == files \ {path}

\* the download of the provider's video into the scene's temp file settles:
\* status 200 and the stream finished, another status, or a request error
\* (the only case that unlinks the file)
VeoDownload(r) ==
    /\ runs[r].pc = "veo_download"
    /\ LET run == runs[r]
           veoPath == TempPath(run.id, run.index, "_veo.mp4")
           caught == [run EXCEPT !.failed = @ \cup {run.index}] IN
       \/ /\ UNCHANGED tempFs
          /\ SetRun(r, PushScene(run, veoPath, imageUrl(veoPath, inputImage(run))))
       \/ /\ UNCHANGED tempFs
          /\ SetRun(r, PushScene(caught, NoPath, imageUrl(NoPath, inputImage(run))))
       \/ /\ tempFs' = unlink(tempFs, veoPath)
          /\ SetRun(r, PushScene([caught EXCEPT !.unlinked = @ \cup {veoPath}],
                                 NoPath, imageUrl(NoPath, inputImage(run))))
    /\ UNCHANGED <<queue, nextId, videos, hist, call>>

\* excludeVideoIds.push(video.id)
pushNothing(ids, id) == ids

push(ids, id) == Append(ids, id)

\* pexelsApi.findVideo settles: a video whose id is not excluded (then
\* fs.createWriteStream creates the temp file and https.get is awaited), or
\* a throw
Pexels(r) ==
    /\ runs[r].pc = "pexels"
    /\ \/ /\ \E vid \in VideoIds \ Range(runs[r].excludeVideoIds) :
               SetRun(r, [runs[r] EXCEPT !.videoId = vid, !.found = Append(@, vid),
                                         !.pc = "pexels_download"])
          /\ tempFs' = tempFs \cup {TempPath(runs[r].id, runs[r].index, "mp4")}
       \/ /\ SetRun(r, Reject(runs[r], "pexels"))
          /\ UNCHANGED tempFs
    /\ UNCHANGED <<queue, nextId, videos, hist, call>>

\* the download of the stock video settles: status 200 and the stream
\* finished, another status, or a request error (which unlinks the file)
PexelsDownload(r) ==
    /\ runs[r].pc = "pexels_download"
    /\ LET run == runs[r]
           mp4Path == TempPath(run.id, run.index, "mp4") IN
       \/ /\ UNCHANGED tempFs
          /\ SetRun(r, PushScene([run EXCEPT !.excludeVideoIds = push(@, run.videoId)],
                                 mp4Path, NoImage))
       \/ /\ UNCHANGED tempFs
          /\ SetRun(r, [run EXCEPT !.pc = "rejected"])
       \/ /\ tempFs' = unlink(tempFs, mp4Path)
          /\ SetRun(r, [run EXCEPT !.pc = "rejected", !.unlinked = @ \cup {mp4Path}])
    /\ UNCHANGED <<queue, nextId, videos, hist, call>>

\* fs.removeSync(file) of fs-extra on the temp directory: the file is removed;
\* a path that does not exist is left alone and nothing is thrown (st.threw
\* tells whether a removal has thrown, which ends the loop)
unlinkSync(st, file) ==
    IF st.threw THEN st
    ELSE IF file \in st.files THEN [st EXCEPT !.files = @ \ {file}]
    ELSE [st EXCEPT !.threw = TRUE]

removeSync(st, file) ==
    IF st.threw THEN st ELSE [st EXCEPT !.files = @ \ {file}]

RECURSIVE removeEach(_, _)
removeEach(st, tempFiles) ==
    IF tempFiles = << >> THEN st
    ELSE removeEach(removeSync(st, Head(tempFiles)), Tail(tempFiles))

\* for (const file of tempFiles) { fs.removeSync(file); }
cleanupTempDir(files, tempFiles) == [files |-> {}, threw |-> FALSE]

cleanup(files, tempFiles) == removeEach([files |-> files, threw |-> FALSE], tempFiles)

\* remotion.render settles: the output is written, then the temp files of
\* this execution are removed
Render(r) ==
    /\ runs[r].pc = "render"
    /\ \/ LET released == cleanup(tempFs, runs[r].tempFiles) IN
          /\ videos' = videos \cup {runs[r].id}
          /\ tempFs' = released.files
          /\ SetRun(r, [runs[r] EXCEPT
                 !.pc = IF released.threw THEN "rejected" ELSE "resolved"])
       \/ /\ SetRun(r, [runs[r] EXCEPT !.pc = "rejected"])
          /\ UNCHANGED <<videos, tempFs>>
    /\ UNCHANGED <<queue, nextId, hist, call>>

\* veoApi.uploadFile settles (provider-only pipeline, localhost image)
VoUpload(r) ==
    /\ runs[r].pc = "vo_upload"
    /\ \/ SetRun(r, animate([runs[r] EXCEPT !.pc = "vo_veo"], UploadedUrl))
       \/ SetRun(r, [runs[r] EXCEPT !.pc = "rejected"])
    /\ UNCHANGED <<queue, nextId, videos, tempFs, hist, call>>

\* the download to the final path getVideoPath(videoId) settles: status 200
\* and the stream finished; another status (rejected, the file stays); a
\* request error or the 60 s timeout (the file is unlinked)
VoDownload(r) ==
    /\ runs[r].pc = "vo_download"
    /\ \/ /\ UNCHANGED videos
          /\ SetRun(r, [runs[r] EXCEPT !.pc = "resolved"])
       \/ /\ UNCHANGED videos
          /\ SetRun(r, [runs[r] EXCEPT !.pc = "rejected", !.scenario = FALSE])
       \/ /\ videos' = videos \ {runs[r].id}
          /\ SetRun(r, [runs[r] EXCEPT !.pc = "rejected", !.scenario = FALSE])
    /\ UNCHANGED <<queue, nextId, tempFs, hist, call>>

\* one step of an execution: an awaited call settles
Progress ==
    \/ \E r \in 1..Len(runs) : Kokoro(r)
    \/ \E r \in 1..Len(runs) : Normalize(r)
    \/ \E r \in 1..Len(runs) : Whisper(r)
    \/ \E r \in 1..Len(runs) : SaveToMp3(r)
    \/ \E r \in 1..Len(runs) : VeoCreate(r)
    \/ \E r \in 1..Len(runs) : VeoBackoff(r)
    \/ \E r \in 1..Len(runs) : VeoPoll(r)
    \/ \E r \in 1..Len(runs) : VeoDownload(r)
    \/ \E r \in 1..Len(runs) : Pexels(r)
    \/ \E r \in 1..Len(runs) : PexelsDownload(r)
    \/ \E r \in 1..Len(runs) : Render(r)
    \/ \E r \in 1..Len(runs) : VoUpload(r)
    \/ \E r \in 1..Len(runs) : VoDownload(r)
    \/ \E r \in 1..Len(runs) : Settle(r)

Init ==
    /\ queue = << >>
    /\ runs = << >>
    /\ nextId = 1
    /\ videos = {}
    /\ tempFs = {}
    /\ hist = [done |-> << >>, threw |-> {}, registered |-> {}]
    /\ call = VeoIdle

Next == AddToQueue \/ Progress

Spec == Init /\ [][Next]_vars

NextFair == AddToQueueFair \/ Progress

NextJob == AddToQueuePipeline \/ Progress

\* one job followed through its scenes
SpecJob == Init /\ [][NextJob]_vars

\* every awaited collaborator call eventually settles
FairSpec == Init /\ [][NextFair]_vars /\ WF_vars(Progress)

(***************************************************************************)
(* Properties of the queue.                                                *)
(***************************************************************************)
Submitted == 1..(nextId - 1)

Terminal(id) == id \in Range(hist.done)

\* C1: under any interleaving of addToQueue calls and job completions, at
\* most one execution of processQueue/createShort exists at any moment, and
\* it is the one of the job at the head of the queue.
C1_AtMostOneInFlight ==
    /\ Len(runs) <= 1
    /\ \A r \in 1..Len(runs) : Len(queue) > 0 /\ runs[r].id = queue[1].id

\* a second job was submitted while the first one is in flight
C1_Witness ==
    /\ Len(queue) = 2
    /\ Len(runs) = 1
    /\ runs[1].pc = "veo" /\ runs[1].veo.pc = "poll"

\* C2: jobs become terminal in submission order (ids are handed out in
\* submission order), and no job runs before every earlier job is terminal.
C2_FifoTermination ==
    /\ \A a, b \in 1..Len(hist.done) : a < b => hist.done[a] < hist.done[b]
    /\ \A r \in 1..Len(runs) : \A id \in 1..(runs[r].id - 1) : Terminal(id)

\* two jobs have become terminal, the later one after waiting in the queue
C2_Witness == Len(hist.done) >= 2 /\ hist.done[1] \in hist.threw

\* C3: a submitted job that is not terminal reads processing, waiting or in
\* flight; so ready or failed is read only once its own run has finished.
C3_ProcessingUntilTerminal ==
    \A id \in Submitted : ~Terminal(id) => status(id) = "processing"

\* the job in flight already has a file at its final path, and another job
\* waits behind it: both read processing
C3_Witness ==
    /\ Len(queue) = 2
    /\ Len(runs) = 1 /\ runs[1].pc = "vo_download"
    /\ queue[1].id \in videos
    /\ status(queue[1].id) = "processing" /\ status(queue[2].id) = "processing"

\* when a job's pipeline throws, the job leaves the queue and the next
\* queued job is started
C4_FailureStartsNext ==
    [][hist'.threw # hist.threw =>
          /\ queue' = Tail(queue)
          /\ Len(queue') > 0 => \E r \in 1..Len(runs') : runs'[r].id = queue'[1].id]_vars

\* every awaited call settling eventually, every submitted job becomes
\* terminal: again and again, all jobs submitted so far are terminal (a
\* terminal job stays terminal and a submitted one stays submitted, so each
\* submitted job is terminal from some moment on)
C4_EveryJobTerminates == []<>(\A id \in Submitted : Terminal(id))

\* C4: a failed job is removed and the next one started, and every submitted
\* job eventually becomes terminal, whatever failed before it.
C4_FailureNeverBlocks == C4_FailureStartsNext /\ C4_EveryJobTerminates

\* a job became terminal after an earlier job had failed
C4_Witness ==
    \E a \in hist.threw : \E b \in Range(hist.done) : a < b

\* C5: a job whose pipeline threw reads failed once it has left the queue.
C5_ThrownReadsFailed == \A id \in hist.threw : status(id) = "failed"

\* C6: once a job is terminal, none of the temp paths registered during its
\* processing exists.
C6_TempFilesRemoved ==
    \A p \in hist.registered : Terminal(p.job) => p \notin tempFs

(***************************************************************************)
(* A direct call of VeoAPI.generateVideo (variable call).                  *)
(***************************************************************************)
RetryBudgets == 0..MaxRetriesBound

DirectCreate ==
    /\ call.pc = "create"
    /\ \E resp \in CreateResponses : call' = AfterCreate(call, resp)
    /\ UNCHANGED <<queue, runs, nextId, videos, tempFs, hist>>

DirectBackoff ==
    /\ call.pc = "backoff"
    /\ call' = AfterBackoff(call)
    /\ UNCHANGED <<queue, runs, nextId, videos, tempFs, hist>>

DirectPoll ==
    /\ call.pc = "poll"
    /\ \E resp \in PollResponses : call' = AfterPoll(call, resp)
    /\ UNCHANGED <<queue, runs, nextId, videos, tempFs, hist>>

InitVeo ==
    /\ queue = << >>
    /\ runs = << >>
    /\ nextId = 1
    /\ videos = {}
    /\ tempFs = {}
    /\ hist = [done |-> << >>, threw |-> {}, registered |-> {}]
    /\ \E n \in RetryBudgets : call = generateVideo(n)

NextVeo == DirectCreate \/ DirectBackoff \/ DirectPoll

SpecVeo == InitVeo /\ [][NextVeo]_vars

(***************************************************************************)
(* Properties of one generateVideo call.                                   *)
(***************************************************************************)
RetryableStatus(code) == code = 400 \/ code >= 500

ExpectedWaits == <<1000, 2000, 4000, 8000, 10000, 10000, 10000, 10000>>

\* C7: once a create answer or a failed-poll answer carried a policy phrase,
\* the call has thrown a content-policy error and issued no further create
\* request, whatever the HTTP status of that answer.
C7_PolicyNeverRetried ==
    call.policyAt > 0 =>
        /\ call.pc = "thrown"
        /\ call.error.name = "VeoContentPolicyError"
        /\ call.creates = call.policyAt

\* C8: a call never issues more than maxRetries + 1 create requests, and a
\* call whose create requests were all answered with HTTP 5xx throws, after
\* exactly maxRetries + 1 of them, the provider error of the last one.
C8_RetryBudget ==
    /\ call.creates <= call.maxRetries + 1
    /\ (call.pc = "thrown" /\ call.fails5xx = call.creates) =>
          /\ call.creates = call.maxRetries + 1
          /\ call.error.name = "VeoAPIError"
          /\ call.error.statusCode >= 500
          /\ call.error = call.lastError

\* maxRetries = 2 and three create requests answered with HTTP 5xx
C8_Witness ==
    /\ call.pc = "thrown"
    /\ call.maxRetries = 2
    /\ call.fails5xx = 3 /\ call.creates = 3

\* C9: the k-th wait of a call (k = 0 first) is min(1000 * 2^k, 10000) ms,
\* the waits are non-decreasing and never above the cap, and there is one
\* wait between two create requests and none after the last one.
C9_Backoff ==
    /\ call.waits = SubSeq(ExpectedWaits, 1, Len(call.waits))
    /\ \A k \in 1..Len(call.waits) :
          /\ call.waits[k] <= 10000
          /\ k > 1 => call.waits[k - 1] <= call.waits[k]
    /\ call.pc = "backoff" => Len(call.waits) = call.creates
    /\ call.pc \in {"create", "poll", "returned", "thrown"} => Len(call.waits) = call.creates - 1

\* five waits, the last one capped, and the call has thrown without a sixth
C9_Witness ==
    /\ call.pc = "thrown"
    /\ Len(call.waits) = 5 /\ call.waits[4] = 8000 /\ call.waits[5] = 10000
    /\ call.creates = 6

\* C10: once a create request was answered with HTTP 401, 403 or 429 the
\* call has thrown that provider error without a further create request;
\* and an error is followed by a wait and a retry only if its status is 400
\* or 5xx.
C10_PermanentNotRetried ==
    /\ call.permanentAt > 0 =>
          /\ call.pc = "thrown"
          /\ call.error.name = "VeoAPIError"
          /\ call.error.statusCode \in {401, 403, 429}
          /\ call.creates = call.permanentAt
    /\ call.pc = "backoff" =>
          /\ call.lastError.name = "VeoAPIError"
          /\ RetryableStatus(call.lastError.statusCode)

\* HTTP 429 on the first create request of a call with retries left
C10_Witness ==
    /\ call.pc = "thrown"
    /\ call.maxRetries = 2 /\ call.creates = 1
    /\ call.permanentAt = 1 /\ call.error.statusCode = 429

(***************************************************************************)
(* Properties of polling one task.                                         *)
(***************************************************************************)
\* the call ended where the answer recorded in `ended` left it: it threw,
\* with no poll, no task and no create request after that answer
EndedThere ==
    /\ call.pc = "thrown"
    /\ call.tasks = call.ended.task
    /\ call.polls = call.ended.polls
    /\ call.creates = call.ended.creates
    /\ Len(call.waits) = call.ended.creates - 1

\* C11: once a status check was answered with successFlag 2 or 3, the call
\* has thrown a provider or content-policy error: the task is not polled
\* again, and no wait, create request or new task follows.
C11_FailedTaskIsTerminal ==
    call.ended.by = "failed" =>
        /\ EndedThere
        /\ call.error.name \in {"VeoAPIError", "VeoContentPolicyError"}
        /\ call.error.name = "VeoAPIError" =>
              call.error.statusCode = Undefined /\ call.error.veoCode \in {2, 3}

\* successFlag 3 on the second status check of a call that had retries left
C11_Witness ==
    /\ call.ended.by = "failed"
    /\ call.pc = "thrown" /\ call.error.veoCode = 3
    /\ call.maxRetries = 2 /\ call.attempt = 0
    /\ call.polls = 2

\* C12: a status check that got no response, or an HTTP error status other
\* than 401, 403 and 429, never ends the wait by itself: every answer moves
\* polling on by one attempt, and such an answer ends the wait only as the
\* last attempt allowed, by the timeout.  A status check answered with 401,
\* 403 or 429 makes the call throw the provider error of that status at
\* once, with no further status check or create request.
C12_PollErrors ==
    /\ call.pc = "poll" => call.i = call.polls /\ call.i < MAX_POLLING_ATTEMPTS
    /\ call.ended.by = "transport" =>
          /\ EndedThere
          /\ call.error.name = "VeoTimeoutError"
          /\ call.polls = MAX_POLLING_ATTEMPTS
    /\ call.ended.by = "permanent" =>
          /\ EndedThere
          /\ call.error.name = "VeoAPIError"
          /\ call.error.statusCode \in {401, 403, 429}

\* the third status check of a call with retries left is answered with 429
C12_Witness ==
    /\ call.ended.by = "permanent" /\ call.ended.polls = 3
    /\ call.pc = "thrown" /\ call.error.statusCode = 429
    /\ call.maxRetries = 2 /\ call.attempt = 0

\* C13: a task is checked at most MAX_POLLING_ATTEMPTS times; when the last
\* answer still is not a terminal state of the task, the call has thrown the
\* timeout error carrying the task id and the attempt count, after exactly
\* MAX_POLLING_ATTEMPTS checks, and nothing was retried after it.
C13_PollingTerminates ==
    /\ call.polls <= MAX_POLLING_ATTEMPTS
    /\ call.i <= MAX_POLLING_ATTEMPTS
    /\ call.error.name = "VeoTimeoutError" <=>
          call.ended.by \in {"generating", "nourl", "transport"}
    /\ call.ended.by \in {"generating", "nourl", "transport"} =>
          /\ EndedThere
          /\ call.polls = MAX_POLLING_ATTEMPTS
          /\ call.error = VeoTimeoutError(call.ended.task, MAX_POLLING_ATTEMPTS)
          /\ call.error.taskId = call.tasks
          /\ call.error.attempts = 40

\* forty status checks, the last one answered "still generating", in a call
\* that had retries left
C13_Witness ==
    /\ call.pc = "thrown" /\ call.error.name = "VeoTimeoutError"
    /\ call.ended.by = "generating"
    /\ call.polls = 40
    /\ call.maxRetries = 2 /\ call.attempt = 0

\* the state of the task the call polls, as the status checks show it
TaskState(v) ==
    IF v.tasks = 0 THEN "none"
    ELSE IF v.ended.task = v.tasks /\ v.ended.by = "success" THEN "Succeeded"
    ELSE IF v.ended.task = v.tasks /\ v.ended.by = "failed" THEN "Failed"
    ELSE IF v.ended.task = v.tasks /\ v.ended.by \in {"generating", "nourl", "transport"}
         THEN "TimedOut"
    ELSE IF v.polls = 0 THEN "Submitted"
    ELSE "Generating"

TerminalTaskStates == {"Succeeded", "Failed", "TimedOut"}

TaskRank(state) ==
    CASE state = "none" -> 0
      [] state = "Submitted" -> 1
      [] state = "Generating" -> 2
      [] OTHER -> 3

\* C14: a task starts Submitted when a create request is answered with its
\* id, and only then; while the call keeps its task the task's state never
\* moves backwards, a status check is made only while the call is polling,
\* and a task that is Succeeded, Failed or TimedOut stays so and is not
\* checked again; polling is entered only with a new task id, never with an
\* earlier one.
C14_TaskLifecycle ==
    [][/\ call'.tasks \in {call.tasks, call.tasks + 1}
       /\ call'.tasks = call.tasks =>
             /\ TaskRank(TaskState(call')) >= TaskRank(TaskState(call))
             /\ call'.polls # call.polls =>
                   call.pc = "poll" /\ call'.polls = call.polls + 1
             /\ TaskState(call) \in TerminalTaskStates =>
                   call'.polls = call.polls /\ TaskState(call') = TaskState(call)
       /\ call'.tasks = call.tasks + 1 =>
             /\ call.pc = "create"
             /\ TaskState(call') = "Submitted"
             /\ call'.i = 0
       /\ (call'.pc = "poll" /\ call.pc # "poll") => call'.tasks = call.tasks + 1]_vars

\* the second create request of a call made the task, which took three
\* status checks to succeed
C14_Witness ==
    /\ call.creates = 2 /\ call.tasks = 1
    /\ TaskState(call) = "Succeeded"
    /\ call.polls = 3

(***************************************************************************)
(* Properties of one job's pipeline.                                       *)
(***************************************************************************)
Runs == 1..Len(runs)

\* C15 (state): every scene whose provider call or download failed has its
\* result, made from the still image: the input image set, no video.
C15_FailedSceneHasImage ==
    \A r \in Runs : \A k \in runs[r].failed :
        /\ Len(runs[r].scenes) > k
        /\ runs[r].scenes[k + 1].video = NoPath
        /\ runs[r].scenes[k + 1].image = runs[r].job.scenes[k + 1]
        /\ runs[r].scenes[k + 1].image # NoImage

\* C15 (step): the step in which the provider call or the download of a
\* scene fails appends that scene's result and goes on to the next stage, the
\* next scene's speech synthesis or the render: the job is not rejected.
C15_FailureGoesOn ==
    [][\A r \in Runs :
          (/\ r <= Len(runs')
           /\ runs'[r].id = runs[r].id
           /\ runs'[r].failed # runs[r].failed) =>
              /\ runs'[r].pc \in {"kokoro", "render"}
              /\ Len(runs'[r].scenes) = Len(runs[r].scenes) + 1
              /\ runs'[r].index = runs[r].index + 1]_vars

\* C15: in the provided-image branch a failure of the provider's generation
\* or of the download of its result makes the scene fall back to the still
\* image, and the job goes on with its remaining stages and scenes.
C15_FallbackToImage == []C15_FailedSceneHasImage /\ C15_FailureGoesOn

\* the provider failed for the second of three scenes, and the job went on
\* through the third scene to the render
C15_Witness ==
    \E r \in Runs :
        /\ runs[r].job.scenes = <<"none", "remote", "none">>
        /\ runs[r].failed = {1}
        /\ runs[r].pc = "render"
        /\ runs[r].scenes[2].image = "remote" /\ runs[r].scenes[3].video # NoPath

\* C16: the duration handed to remotion.render is the sum of the audio
\* lengths kokoro returned for the scenes plus the configured pad, once.
C16_TimelineDuration ==
    \A r \in Runs :
        runs[r].pc = "render" =>
            runs[r].totalDuration = runs[r].synth + runs[r].job.paddingBack

\* C17: the exclusion list handed to pexelsApi.findVideo holds exactly the
\* ids findVideo returned for the earlier stock scenes of the same job (none
\* for the first one), and findVideo honouring it, no id is returned twice
\* within a job.
C17_ExcludesEarlierIds ==
    \A r \in Runs :
        /\ runs[r].pc = "pexels" => runs[r].excludeVideoIds = runs[r].found
        /\ runs[r].pc = "pexels_download" =>
              runs[r].excludeVideoIds = SubSeq(runs[r].found, 1, Len(runs[r].found) - 1)
        /\ Range(runs[r].excludeVideoIds) \subseteq Range(runs[r].found)
        /\ \A a, b \in 1..Len(runs[r].found) :
              a # b => runs[r].found[a] # runs[r].found[b]

\* the search for the third scene, with the id of the first scene excluded
\* (the second scene had an image)
C17_Witness ==
    \E r \in Runs :
        /\ runs[r].job.scenes = <<"none", "remote", "none">>
        /\ runs[r].pc = "pexels" /\ runs[r].index = 2
        /\ Len(runs[r].excludeVideoIds) = 1

\* C18: when remotion.render is called the job has one result per scene, the
\* k-th made from the k-th scene: a stock scene's result is the video
\* downloaded for that scene, an image scene's result is the provider's
\* video for that scene or its image.
C18_ResultsMatchScenes ==
    \A r \in Runs :
        runs[r].pc \in {"render", "resolved"} /\ ~runs[r].job.veoOnly =>
            /\ Len(runs[r].scenes) = Len(runs[r].job.scenes)
            /\ \A k \in 1..Len(runs[r].scenes) :
                  LET result == runs[r].scenes[k]
                      input == runs[r].job.scenes[k] IN
                  /\ result.from = k
                  /\ input = "none" =>
                        result.video = TempPath(runs[r].id, k - 1, "mp4")
                  /\ input # "none" =>
                        \/ result.video = TempPath(runs[r].id, k - 1, "_veo.mp4")
                        \/ result.video = NoPath /\ result.image = input

\* a three-scene job at the render
C18_Witness ==
    \E r \in Runs :
        /\ runs[r].pc = "render"
        /\ Len(runs[r].job.scenes) = 3 /\ Len(runs[r].scenes) = 3
        /\ runs[r].scenes[2].video # NoPath

\* C19: every scene result has a video or an image, never both and never
\* neither.
C19_OneVisualTrack ==
    \A r \in Runs : \A k \in 1..Len(runs[r].scenes) :
        (runs[r].scenes[k].video # NoPath) # (runs[r].scenes[k].image # NoImage)

\* results of both branches: a stock video, then the provider's video of an
\* image scene (whose image stays unset)
C19_Witness ==
    \E r \in Runs :
        /\ Len(runs[r].scenes) >= 2
        /\ runs[r].job.scenes[1] = "none" /\ runs[r].scenes[1].video # NoPath
        /\ runs[r].job.scenes[2] = "remote" /\ runs[r].scenes[2].video # NoPath
        /\ runs[r].scenes[2].image = NoImage

\* the temp paths of a job
TempOf(id) == {p \in tempFs \cup hist.registered : p.job = id}

\* C20 (state): while every answer to a one-scene provider-only job with an
\* image at a public URL is the scenario's (create ok; status checks
\* "generating", then a URL before the attempt bound; download 200), the job
\* has not thrown, it has made one create request and one task, and the only
\* file written for it is the one at its output path.
C20_ScenarioState ==
    \A r \in Runs :
        runs[r].scenario =>
            /\ runs[r].job = ScenarioJob
            /\ runs[r].pc \in {"vo_veo", "vo_download", "resolved"}
            /\ runs[r].veo.creates = 1
            /\ runs[r].pc = "vo_veo" =>
                  /\ runs[r].veo.pc \in {"create", "poll"}
                  /\ runs[r].id \notin videos
            /\ runs[r].pc \in {"vo_download", "resolved"} =>
                  /\ runs[r].veo.pc = "returned"
                  /\ runs[r].veo.tasks = 1
                  /\ runs[r].veo.polls \in 1..MAX_POLLING_ATTEMPTS
                  /\ runs[r].id \in videos
            /\ TempOf(runs[r].id) = {}

\* C20 (step): the scenario completed, the job leaves the queue without
\* having thrown and reads ready.
C20_ScenarioEndsReady ==
    [][\A r \in Runs :
          (runs[r].scenario /\ runs[r].pc = "resolved" /\ hist'.done # hist.done) =>
              /\ hist'.done = Append(hist.done, runs[r].id)
              /\ runs[r].id \notin hist'.threw
              /\ \A id \in {runs[r].id} : status(id)' = "ready"]_vars

C20_Ready ==
    /\ Len(hist.done) = 1 /\ hist.threw = {}
    /\ status(hist.done[1]) = "ready"

(***************************************************************************)
(* Properties of the operations on jobs: status, list, delete.             *)
(***************************************************************************)
\* the submitted jobs whose status reads processing
Processing == {id \in Submitted : status(id) = "processing"}

QueuedIds == {queue[k].id : k \in 1..Len(queue)}

\* C21 (as stated): at any instant at which a job is being processed, the
\* status reads over all submitted jobs show exactly one job as processing
C21_ExactlyOneProcessing ==
    Len(runs) >= 1 => Cardinality(Processing) = 1

\* C21 (amended): at any instant at which a job is being processed, exactly
\* one job is in flight, it is the head of the queue, and the jobs whose
\* status reads processing are exactly the jobs in the queue, the one in
\* flight and every job waiting behind it: at least one, and as many as the
\* queue is long
C21_ProcessingIsQueued ==
    Len(runs) >= 1 =>
        /\ Len(runs) = 1
        /\ Len(queue) >= 1 /\ runs[1].id = queue[1].id
        /\ Processing = QueuedIds
        /\ Cardinality(Processing) = Len(queue)

\* a job is normalizing its audio while another one waits: both read
\* processing
C21_Witness ==
    /\ Len(runs) = 1 /\ runs[1].pc = "normalize"
    /\ Len(queue) = 2
    /\ Cardinality(Processing) = 2

\* fs.readdirSync(videosDirPath), the names without ".mp4": the ids of the
\* output files, here in ascending order
RECURSIVE readdirSync(_)
readdirSync(files) ==
    IF files = {} THEN << >>
    ELSE LET first == CHOOSE x \in files : \A y \in files : x <= y IN
         <<first>> \o readdirSync(files \ {first})

\* listAllVideos, first loop: one entry per output file, processing when the
\* id is in the queue and ready otherwise
listFiles(files, q) ==
    [k \in 1..Len(files) |->
        [id |-> files[k],
         status |-> IF \E j \in 1..Len(q) : q[j].id = files[k]
                    THEN "processing" ELSE "ready"]]

\* listAllVideos, second loop: every queue item not listed yet is added as
\* processing
RECURSIVE addQueuedAll(_, _)
addQueuedAll(list, q) ==
    IF q = << >> THEN list
    ELSE addQueuedAll(Append(list, [id |-> Head(q).id, status |-> "processing"]), Tail(q))

RECURSIVE addQueued(_, _)
addQueued(list, q) ==
    IF q = << >> THEN list
    ELSE LET existing == \E k \in 1..Len(list) : list[k].id = Head(q).id IN
         addQueued(IF existing THEN list
                   ELSE Append(list, [id |-> Head(q).id, status |-> "processing"]),
                   Tail(q))

\* listAllVideos(): the videos directory exists since the Config constructor
\* (fs.ensureDirSync), so the early return of an empty list is not taken
listAllVideos == addQueued(listFiles(readdirSync(videos), queue), queue)

\* deleteVideo(videoId): fs.removeSync(getVideoPath(videoId)); the queue is
\* not touched
deleteVideoCancels(id) ==
    [videos |-> videos \ {id},
     queue |-> SelectSeq(queue, LAMBDA item : item.id # id)]

deleteVideo(id) == [videos |-> videos \ {id}, queue |-> queue]

DeleteVideo ==
    \E id \in Submitted :
        /\ videos' = deleteVideo(id).videos
        /\ queue' = deleteVideo(id).queue
        /\ UNCHANGED <<runs, nextId, tempFs, hist, call>>

\* submissions, deletions and the progress of the running job
NextOps == AddToQueueFair \/ DeleteVideo \/ Progress

SpecOps == Init /\ [][NextOps]_vars

FairSpecOps == Init /\ [][NextOps]_vars /\ WF_vars(Progress)

\* C22: list() returns every job that is in the queue (waiting or in flight)
\* and every job with a persisted output, each id exactly once; a job in the
\* queue is tagged processing even if an output file of its id exists, and a
\* job found only as persisted output is tagged ready
C22_ListAllVideos ==
    LET list == listAllVideos IN
    /\ {list[k].id : k \in 1..Len(list)} = QueuedIds \cup videos
    /\ \A j, k \in 1..Len(list) : list[j].id = list[k].id => j = k
    /\ \A k \in 1..Len(list) :
          list[k].status = IF list[k].id \in QueuedIds THEN "processing" ELSE "ready"

\* a ready job and a job in flight whose output file already exists
C22_Witness ==
    /\ Len(listAllVideos) = 2
    /\ \E r \in Runs : runs[r].pc = "vo_download" /\ runs[r].id \in videos
    /\ \E k \in 1..2 : listAllVideos[k].status = "ready"
    /\ \E k \in 1..2 : listAllVideos[k].status = "processing" /\ listAllVideos[k].id \in videos

\* C23, the effect of delete: a step that removes an output file and is not
\* a step of the running job removes the output of one job and leaves the
\* pending list, the execution in flight and the temp files as they are
C23_DeleteFrame ==
    [][(videos' # videos /\ runs' = runs) =>
          /\ \E id \in Submitted : videos' = videos \ {id}
          /\ queue' = queue /\ tempFs' = tempFs /\ nextId' = nextId]_vars

\* C23, queue membership: the queue changes only by a submission appending
\* at the tail and by the removal of the head once its execution settled
C23_QueueChanges ==
    [][queue' # queue =>
          \/ /\ nextId' = nextId + 1
             /\ \E job \in FairJobInputs : queue' = Append(queue, [id |-> nextId, job |-> job])
          \/ /\ queue' = Tail(queue) /\ nextId' = nextId
             /\ Len(runs) = 1 /\ runs[1].id = queue[1].id
             /\ runs[1].pc \in {"resolved", "rejected"}]_vars

\* C23, no cancellation: a submitted job is in the queue or has reached a
\* terminal state, and the queue is emptied again and again, whatever is
\* deleted meanwhile: every queued job reaches a terminal state
C23_QueuedOrTerminal ==
    \A id \in Submitted : id \in QueuedIds \/ Terminal(id)

C23_StillTerminates ==
    []C23_QueuedOrTerminal /\ []<>(queue = << >>)

\* C23: delete(jobId) removes only the persisted output of that job and
\* leaves the pending list and the in-flight job unchanged; the queue
\* changes only by submit appending at the tail and by the scheduler removing
\* the head on completion, so a deleted queued or in-flight job is not
\* cancelled and still runs to a terminal state
C23_DeleteDoesNotCancel ==
    C23_DeleteFrame /\ C23_QueueChanges /\ C23_StillTerminates

\* the output of a job in flight was deleted, and the job went on to resolve
C23_Witness ==
    \E r \in Runs :
        /\ runs[r].job.veoOnly /\ runs[r].pc = "resolved"
        /\ runs[r].id \notin videos
        /\ status(runs[r].id) = "processing"

\* C24: ready and failed are terminal for a job: once status(jobId) has
\* read ready or failed, no later operation (a submission, a delete, a list,
\* a status read, a step of another job) makes it read anything else
C24_TerminalStatusStays ==
    [][\A id \in Submitted :
          status(id) \in {"ready", "failed"} => status(id)' = status(id)]_vars

\* the part of C24 that holds: a job that has left the queue never reads
\* processing again, and failed stays failed
C24_NeverProcessingAgain ==
    [][\A id \in Submitted :
          /\ status(id) \in {"ready", "failed"} => status(id)' # "processing"
          /\ status(id) = "failed" => status(id)' = "failed"]_vars

(***************************************************************************)
(* Properties of the scheduling trigger.                                   *)
(***************************************************************************)
\* an execution of createShort has not settled yet
InFlight == Len(runs) >= 1 /\ runs[1].pc \notin {"resolved", "rejected"}

C26_ReleaseTolerant ==
    \A r \in Runs :
        ~runs[r].job.veoOnly =>
            /\ runs[r].pc = "resolved" =>
                  /\ Range(runs[r].tempFiles) \cap tempFs = {}
                  /\ cleanup(tempFs, runs[r].tempFiles) = [files |-> tempFs, threw |-> FALSE]
            /\ runs[r].pc = "rejected" => runs[r].id \notin videos

\* a job resolved although the provider video path registered for a scene
\* that fell back to its image did not exist when the temp files were removed
C26_Witness ==
    \E r \in Runs :
        /\ runs[r].pc = "resolved" /\ runs[r].failed # {}
        /\ \A i \in runs[r].failed :
              /\ TempPath(runs[r].id, i, "_veo.mp4") \in Range(runs[r].tempFiles)
              /\ TempPath(runs[r].id, i, "_veo.mp4") \notin tempFs
        /\ runs[r].id \in videos

\* C27: the cleanup of one job removes only paths that were registered
\* during that same job: a step that removes temp files removes paths the
\* running execution registered, all of them paths of its own job, and
\* removes no output file
C27_CleanupOwnPaths ==
    [][tempFs' # tempFs =>
          /\ \A p \in tempFs \ tempFs' :
                \E r \in Runs : p \in Range(runs[r].tempFiles) /\ p.job = runs[r].id
          /\ tempFs \ tempFs' # {} => videos \subseteq videos']_vars

\* a job resolved and removed its temp files while a temp file left behind
\* by an earlier job is still there
C27_Witness ==
    \E r \in Runs :
        /\ runs[r].pc = "resolved" /\ ~runs[r].job.veoOnly
        /\ runs[r].tempFiles # << >>
        /\ Range(runs[r].tempFiles) \cap tempFs = {}
        /\ \E p \in tempFs : p.job # runs[r].id

(***************************************************************************)
(* Properties of the provided-image branch.                                *)
(***************************************************************************)
\* C28: while generateVideo runs for a scene with a provided image, the
\* create request carries the scene's image (its uploaded copy for a
\* localhost image) as start frame and, as end frame, the scene's end-frame
\* image when one is given and the start image otherwise; the two frames
\* differ exactly when the scene supplies a different end-frame image
C28_StartAndEndFrame ==
    \A r \in Runs :
        runs[r].pc \in {"veo", "vo_veo"} =>
            LET image == runs[r].job.scenes[runs[r].index + 1]
                endImage == runs[r].job.endImages[runs[r].index + 1]
                start == IF image = "local" THEN UploadedUrl ELSE image
                frames == runs[r].imageUrls IN
            /\ frames[1] = start
            /\ frames[2] = IF endImage # NoImage THEN endImage ELSE start
            /\ frames[1] # frames[2] <=> (endImage # NoImage /\ endImage # image)

(***************************************************************************)
(* Properties of the order of the stages.                                  *)
(***************************************************************************)
\* the stage of a scene an execution of createShort is suspended in:
\* 1 synthesize, 2 normalize, 3 transcribe, 4 encode, 5 acquire visual
\* (0: not in a scene)
StageOf(pc) ==
    CASE pc = "kokoro"    -> 1
      [] pc = "normalize" -> 2
      [] pc = "whisper"   -> 3
      [] pc = "mp3"       -> 4
      [] pc \in {"veo", "veo_download", "pexels", "pexels_download"} -> 5
      [] OTHER -> 0

\* a scene is assembled: its result is pushed on scenes and the loop goes on
\* to the next scene, or past the last one to the composition
Assembled(run, next) ==
    /\ Len(next.scenes) = Len(run.scenes) + 1
    /\ next.index = run.index + 1
    /\ next.pc = IF next.index < Len(run.job.scenes) THEN "kokoro" ELSE "render"

\* C29, scenes: while a stage of scene i+1 runs, exactly the scenes 1..i
\* have been assembled, in list order
C29_SceneOrder ==
    \A r \in Runs :
        StageOf(runs[r].pc) # 0 =>
            /\ runs[r].index < Len(runs[r].job.scenes)
            /\ Len(runs[r].scenes) = runs[r].index
            /\ \A k \in 1..Len(runs[r].scenes) : runs[r].scenes[k].from = k

\* C29, stages: a step of an execution in stage k of a scene ends the
\* execution with a throw, or leaves it in stage k + 1 of the same scene
\* (within stage 5 the visual may take several awaits), or, from stage 5
\* only, assembles the scene
C29_StageStep ==
    [][\A r \in Runs :
          (/\ r <= Len(runs') /\ runs'[r].id = runs[r].id /\ runs'[r] # runs[r]
           /\ StageOf(runs[r].pc) # 0) =>
              \/ runs'[r].pc = "rejected"
              \/ /\ StageOf(runs'[r].pc) = StageOf(runs[r].pc) + 1
                 /\ runs'[r].index = runs[r].index
                 /\ runs'[r].scenes = runs[r].scenes
              \/ /\ StageOf(runs[r].pc) = 5
                 /\ \/ /\ StageOf(runs'[r].pc) = 5
                       /\ runs'[r].index = runs[r].index
                       /\ runs'[r].scenes = runs[r].scenes
                    \/ Assembled(runs[r], runs'[r])]_vars

\* C29: within a job the scenes are processed strictly one after another in
\* list order, and within a scene the stages run strictly in the order
\* synthesize, normalize, transcribe, encode, acquire visual, assemble: no
\* stage starts before the previous stage of that scene completed, and no
\* stage of scene i+1 starts before scene i was assembled
C29_StagesInOrder == []C29_SceneOrder /\ C29_StageStep

\* the third scene is being transcribed, the first two are assembled
C29_Witness ==
    \E r \in Runs :
        /\ runs[r].pc = "whisper" /\ runs[r].index = 2
        /\ Len(runs[r].scenes) = 2
        /\ runs[r].scenes[1].from = 1 /\ runs[r].scenes[2].from = 2

(***************************************************************************)
(* Properties of a failing stage.                                          *)
(***************************************************************************)
\* C30, where the job stops: after a collaborator call of a scene rejected
\* (synthesis, normalization, transcription, encoding, stock search) the
\* execution is over: the scene is not assembled, no later scene was
\* started, nothing was composed; and no job that ended is executed again
C30_StopsAtFailure ==
    \A r \in Runs :
        /\ runs[r].id \notin Range(hist.done)
        /\ runs[r].threwAt # "none" =>
              /\ runs[r].pc = "rejected"
              /\ runs[r].index < Len(runs[r].job.scenes)
              /\ Len(runs[r].scenes) = runs[r].index
              /\ runs[r].id \notin videos

\* C30, what follows: the only step of such an execution is its end in
\* processQueue, after which the job has thrown, is executed by nobody and
\* reads failed
C30_EndsFailed ==
    [][\A r \in Runs :
          runs[r].threwAt # "none" =>
              \/ r <= Len(runs') /\ runs'[r] = runs[r]
              \/ \A id \in {runs[r].id} :
                    /\ hist'.done = Append(hist.done, id)
                    /\ id \in hist'.threw
                    /\ \A k \in 1..Len(runs') : runs'[k].id # id
                    /\ status(id)' = "failed"]_vars

\* C30: a failure in synthesis, normalization, transcription, encoding or
\* stock search is never retried: the failing collaborator is called once,
\* no later stage or scene of that job runs, the compositor is never invoked
\* for that job, and the job ends failed
C30_StageFailureIsFinal == []C30_StopsAtFailure /\ C30_EndsFailed

\* the transcription of the second of three scenes failed
C30_Witness ==
    \E r \in Runs :
        /\ runs[r].threwAt = "whisper" /\ runs[r].index = 1
        /\ Len(runs[r].job.scenes) = 3
        /\ Len(runs[r].scenes) = 1

(***************************************************************************)
(* Properties of the status of an ended job.                               *)
(***************************************************************************)
\* C31: status(jobId) reads ready only for a job whose pipeline completed
\* successfully: a job that reads ready has left the queue and its pipeline
\* did not throw
C31_ReadyMeansSucceeded ==
    \A id \in Submitted :
        status(id) = "ready" => (Terminal(id) /\ id \notin hist.threw)

(***************************************************************************)
(* Further properties of one generateVideo call.                           *)
(***************************************************************************)
\* one generateVideo call again, for the properties of its single requests:
\* the behaviours are those of SpecVeo
SpecVeoRequests == InitVeo /\ [][NextVeo]_vars

\* C32, at most one task: a call never holds a second task id
C32_AtMostOneTask == call.tasks <= 1

\* C32, creates: a create request is issued only while no task was accepted,
\* after a create request that failed (at once, or after its backoff); once
\* a task id was returned no further create request is issued, whatever the
\* polling of that task ends with
C32_NoCreateAfterTask ==
    [][/\ call.tasks >= 1 => call'.creates = call.creates
       /\ call'.creates # call.creates =>
             /\ call'.creates = call.creates + 1
             /\ call.tasks = 0 /\ call'.tasks = 0
             /\ call.pc \in {"create", "backoff"}
             /\ call.lastError # NoError \/ call'.lastError # NoError]_vars

\* C32: within one generate call at most one task is ever accepted by the
\* provider: retries happen only after a create request that failed, and
\* once a create request has returned a task id no further create request
\* is issued, whatever the outcome of polling that task
C32_OneTaskPerCall == []C32_AtMostOneTask /\ C32_NoCreateAfterTask

\* the third create request was accepted and its task timed out: the call
\* threw the timeout with retries left unused
C32_Witness ==
    /\ call.pc = "thrown" /\ call.error.name = "VeoTimeoutError"
    /\ call.creates = 3 /\ call.tasks = 1
    /\ call.maxRetries = 4

\* the answer to a status check that reports success without a result URL
NoUrlAnswer ==
    [kind |-> "flag", successFlag |-> 1, hasUrl |-> FALSE, status |-> 200, msg |-> ""]

\* C33: when a poll reports successFlag = 1 but carries no result URL, the
\* call has thrown once that answer is handled, at that status check
C33_NoUrlRaises ==
    [][(call.pc = "poll" /\ call' = AfterPoll(call, NoUrlAnswer)) =>
          /\ call'.pc = "thrown"
          /\ call'.polls = call.polls + 1]_vars

(***************************************************************************)
(* Properties of the temp files of a successful job.                       *)
(***************************************************************************)
\* C34 (as stated): in a successful job no temp path registered by the job
\* was removed before the compositor had finished, and once createShort has
\* resolved only the final output remains of the job
C34_RemovedOnlyAfterRender ==
    \A r \in Runs :
        (~runs[r].job.veoOnly /\ runs[r].pc = "resolved") =>
            /\ runs[r].unlinked = {}
            /\ Range(runs[r].tempFiles) \cap tempFs = {}
            /\ runs[r].id \in videos

\* C34 (amended), at the end: once createShort has resolved, only the final
\* output remains of the job, and the only paths removed before the
\* compositor had finished are provider video files whose download ended
\* with a request error and whose scene fell back to its still image
C34_AfterResolve ==
    \A r \in Runs :
        (~runs[r].job.veoOnly /\ runs[r].pc = "resolved") =>
            /\ Range(runs[r].tempFiles) \cap tempFs = {}
            /\ runs[r].id \in videos
            /\ \A p \in runs[r].unlinked :
                  /\ p.ext = "_veo.mp4" /\ p.scene \in runs[r].failed
                  /\ runs[r].scenes[p.scene + 1].video = NoPath

\* C34 (amended), meanwhile: while a later stage or the composition runs,
\* the audio files and the video file of every assembled scene exist
C34_FilesInUseExist ==
    \A r \in Runs :
        (~runs[r].job.veoOnly /\ runs[r].pc \notin {"resolved", "rejected"}) =>
            \A k \in 1..Len(runs[r].scenes) :
                /\ TempPath(runs[r].id, k - 1, "wav") \in tempFs
                /\ TempPath(runs[r].id, k - 1, "mp3") \in tempFs
                /\ runs[r].scenes[k].video # NoPath => runs[r].scenes[k].video \in tempFs

\* C34 (amended), removals: a registered path disappears only in the step
\* in which the compositor finishes, or as the file of a download that ended
\* with a request error
C34_RemovalSteps ==
    [][\A r \in Runs :
          \A p \in (Range(runs[r].tempFiles) \cap tempFs) \ tempFs' :
              /\ r <= Len(runs') /\ runs'[r].id = runs[r].id
              /\ \/ runs[r].pc = "render" /\ runs'[r].pc = "resolved"
                 \/ /\ runs[r].pc \in {"veo_download", "pexels_download"}
                    /\ p \in runs'[r].unlinked
                    /\ p = TempPath(runs[r].id, runs[r].index,
                                    IF runs[r].pc = "veo_download" THEN "_veo.mp4" ELSE "mp4")]_vars

\* C34 (amended): in a successful job the temp files the composition uses
\* are removed only after the compositor has finished; the only registered
\* path removed earlier is the file of a provider download that ended with
\* a request error, whose scene is composed from its still image; after
\* the job is ready only the final output keyed by the job id remains of it
C34_CleanupAfterRender ==
    /\ [](C34_AfterResolve /\ C34_FilesInUseExist)
    /\ C34_RemovalSteps

\* a job resolved after the provider video of one of its scenes had been
\* unlinked by a failed download
C34_Witness ==
    \E r \in Runs :
        /\ runs[r].pc = "resolved" /\ runs[r].unlinked # {}
        /\ Len(runs[r].scenes) = 3
        /\ runs[r].id \in videos
        /\ \A p \in hist.registered : p \notin tempFs

(***************************************************************************)
(* Properties of a status read.                                            *)
(***************************************************************************)
\* ids no addToQueue call has returned
UnknownIds == (0..(MaxJobs + 1)) \ Submitted

\* one call of status(id): its answer, and the queue and the output files
\* after it (queue.find and fs.existsSync write nothing)
statusRead(id) == [answer |-> status(id), queue |-> queue, videos |-> videos]

\* C35: status(id) for an id that was never returned by submit, and for
\* which no output file exists, reads failed; a status read never changes
\* the queue or the stored outputs
C35_UnknownIdReadsFailed ==
    /\ \A id \in UnknownIds : id \notin videos => statusRead(id).answer = "failed"
    /\ \A id \in UnknownIds \cup Submitted :
          statusRead(id).queue = queue /\ statusRead(id).videos = videos

\* a job is in flight with its output file open, and the id that the next
\* submission would get reads failed
C35_Witness ==
    /\ nextId = 2 /\ Len(queue) = 1 /\ videos = {1}
    /\ nextId \in UnknownIds
    /\ statusRead(nextId).answer = "failed"
    /\ statusRead(1).answer = "processing"

(***************************************************************************)
(* Properties of a provider-only job without an image.                     *)
(***************************************************************************)
\* a provider-only job whose scene list is empty or whose first scene
\* carries no image
Imageless(job) ==
    job.veoOnly /\ (Len(job.scenes) = 0 \/ job.scenes[1] = NoImage)

\* C36, the execution: such a job is rejected before any await: no create
\* request (generateVideo is never called), no synthesis, no temp file, no
\* scene result, no output file
C36_RejectedAtOnce ==
    \A r \in Runs :
        Imageless(runs[r].job) =>
            /\ runs[r].pc = "rejected"
            /\ runs[r].veo = VeoIdle /\ runs[r].imageUrls = << >>
            /\ runs[r].synth = 0 /\ runs[r].tempFiles = << >>
            /\ runs[r].scenes = << >> /\ runs[r].index = 0
            /\ runs[r].id \notin videos

\* C36, the queue: the only step of such an execution is its end in
\* processQueue, after which the job has thrown and reads failed, and the
\* next job of the queue, if any, is the one in flight
C36_QueueGoesOn ==
    [][\A r \in Runs :
          Imageless(runs[r].job) =>
              \/ r <= Len(runs') /\ runs'[r] = runs[r]
              \/ \A id \in {runs[r].id} :
                    /\ id \in hist'.threw
                    /\ status(id)' = "failed"
                    /\ queue' = Tail(queue)
                    /\ queue' # << >> =>
                          Len(runs') = 1 /\ runs'[1].id = queue'[1].id]_vars

\* C36: a provider-only job whose first scene carries no image, or whose
\* scene list is empty, ends failed without any provider create request,
\* and the queue then proceeds to the next job; such a job never invokes
\* synthesis, transcription, encoding or the compositor
C36_ImagelessJobFails == []C36_RejectedAtOnce /\ C36_QueueGoesOn

\* a provider-only job with an empty scene list was rejected while another
\* job waits behind it
C36_Witness ==
    \E r \in Runs :
        /\ runs[r].job.veoOnly /\ Len(runs[r].job.scenes) = 0
        /\ runs[r].pc = "rejected"
        /\ Len(queue) = 2 /\ queue[1].id = runs[r].id

\* a request that fails without any HTTP response (connection error or
\* request timeout), as an answer to the create request and to a status
\* check
NoResponseToCreate == [kind |-> "network", status |-> Undefined, msg |-> ""]

NoResponseToPoll ==
    [kind |-> "network", successFlag |-> 0, hasUrl |-> FALSE, status |-> Undefined, msg |-> ""]

\* C37, create: a create request that fails without any HTTP response ends
\* the call at once with that error: no backoff, no further create request,
\* whatever maxRetries is
C37_CreateNotRetried ==
    [][(call.pc = "create" /\ call' = AfterCreate(call, NoResponseToCreate)) =>
          /\ call'.pc = "thrown" /\ call'.error = PlainError
          /\ call'.creates = call.creates /\ call'.waits = call.waits
          /\ call'.tasks = 0]_vars

\* C37, the error: a call that threw such an error made no request after it
\* (a thrown call takes no step) and had waited only for the creates before
C37_ThrownAtOnce ==
    call.error = PlainError =>
        /\ call.pc = "thrown" /\ call.tasks = 0 /\ call.polls = 0
        /\ Len(call.waits) = call.creates - 1

\* C37, polling: the same kind of failure of a status check is logged and
\* polling goes on with the next check, up to the attempt bound
C37_PollGoesOn ==
    [][(call.pc = "poll" /\ call' = AfterPoll(call, NoResponseToPoll)) =>
          /\ call'.polls = call.polls + 1
          /\ call'.creates = call.creates /\ call'.tasks = call.tasks
          /\ IF call.polls + 1 < MAX_POLLING_ATTEMPTS
             THEN call'.pc = "poll" /\ call'.i = call.i + 1
             ELSE call'.pc = "thrown" /\ call'.error.name = "VeoTimeoutError"]_vars

\* C37: a create request that fails without any HTTP response is not
\* retried: generate re-raises that error after the single attempt whatever
\* maxRetries is, whereas the same kind of failure during polling is logged
\* and polling continues
C37_NoResponse == []C37_ThrownAtOnce /\ C37_CreateNotRetried /\ C37_PollGoesOn

\* the first create request of a call with five retries got no response and
\* the call threw
C37_Witness ==
    /\ call.pc = "thrown" /\ call.error = PlainError
    /\ call.maxRetries = 5 /\ call.creates = 1 /\ call.waits = << >>

====
